---------------------------- MODULE Spec2Model ----------------------------
(***************************************************************************)
(* Model of the buffered TLS adapter (TLSStreamBufferer and                *)
(* basic_buffered_tls_socket, network/ssf/layer/cryptography/tls/OpenSSL/  *)
(* impl.h) and of the admin service's command serials (services/admin/     *)
(* admin.h).                                                               *)
(*                                                                         *)
(* The adapter is driven by an io_service run by several threads.  A       *)
(* region of code protected by one of the adapter's mutexes is one step;   *)
(* accesses made outside any lock (status_ in handle_data_n_ops, the       *)
(* error branch of the pull completion handler) are steps of their own.    *)
(* io_service::dispatch called from a handler runs its target inline, so   *)
(* the pull completion handler continues into async_pull_packets and       *)
(* handle_data_n_ops on the same thread, and handle_data_n_ops recurses    *)
(* while it still holds data_queue_mutex_ and op_queue_mutex_.             *)
(***************************************************************************)
EXTENDS Integers, Sequences, FiniteSets, TLC

(* ------------------------------ constants ------------------------------ *)

\* The enum of TLSStreamBufferer, scaled down: the source has 1 MiB, 16 MiB
\* and 50 KiB, which puts 328 records between an empty and a full buffer.
\* The model counts bytes and keeps what the code relies on: a record is
\* shorter than the low-water mark, the low-water mark is below the
\* high-water mark, and the high-water mark is no multiple of a record.
lower_queue_size_bound == 3

higher_queue_size_bound == 5

receive_buffer_size == 2

Success == "success"

operation_aborted == "operation_aborted"

\* ssf::error::io_error
io_error == "io_error"

\* the error of a TLS handshake that failed
handshake_failed == "handshake_failed"

(* ------------------------------- bounds -------------------------------- *)

\* calls of async_read_some
MaxReads == 2

\* calls of cancel() by the owner
MaxCancels == 1

\* calls of async_write_some and write_some
MaxWrites == 1

\* handlers registered at one time in one Admin
MaxHandlers == 2

\* width in bits of a serial (uint32_t in the source)
SerialWidth == 3

\* std::numeric_limits<uint32_t>::max()
uint32_max == 2^SerialWidth - 1

\* the threads that run the io_service and call into the adapter
Threads == {1, 2}

\* error codes a record read on the TLS stream can fail with
Errors == {"eof", "connection_reset"}

\* byte counts a successful record read can return
PullLens == {receive_buffer_size}

\* sizes of the buffers users pass to async_read_some
BigRead == 2 * higher_queue_size_bound

ReadSizes == {0, receive_buffer_size, BigRead}

OpIds == 1..MaxReads

\* is_server_ of the two Admin objects of a connection
Admins == {FALSE, TRUE}

\* the keys of command_handlers_
Serials == 0..uint32_max

\* the handlers callers pass to Command
Handlers == {"h1", "h2"}

\* no entry in command_handlers_
NoHandler == "none"

\* the empty lambda GetAvailableSerial stores to reserve a serial
Placeholder == "placeholder"

\* the requests callers pass to Command: request.command_id and the string
\* request.OnSending() returns, as its bytes
Requests == [command_id : {1, 2}, payload : {<<>>, <<0, 0>>}]

\* a request that stops a service: no parameters to send
StopRequest == [command_id |-> 2, payload |-> <<>>]

\* no frame written to the admin fiber yet
NoFrame == [serial |-> 0, command_id |-> 0, payload_len |-> 0, payload |-> <<>>]

\* ssf::error::invalid_argument
invalid_argument == "invalid_argument"

\* calls of handle_data_n_ops nested by io_service_.dispatch in one call
MaxDepth == 1

\* socket objects the program constructs
MaxSockets == 3
ObjIds == 1..MaxSockets

\* basic_buffered_tls_socket and basic_tls_socket
Kinds == {"buffered", "plain"}

\* storage no constructor has run on
NoSocket ==
  [kind |-> "none", p_ctx_ |-> 0, p_socket_ |-> 0, socket_ |-> 0,
   p_strand_ |-> 0, p_puller_ |-> 0, null_deref |-> FALSE]

\* layers below the outermost one in the stack proxy over tcp, and with
\* them the parameter sets of a ParameterStack
StackSize == 2

\* a parameter set, by what the layers find in it: the keys its own layer
\* requires (valid), the keys of an acceptor endpoint (acceptor), a remote
\* host the proxy layer can take over (host)
ParameterSets == [valid : BOOLEAN, acceptor : BOOLEAN, host : BOOLEAN]

NoParameters == [valid |-> FALSE, acceptor |-> FALSE, host |-> FALSE]

\* the values of ec a caller passes in
CallerEc == {Success, io_error}

\* a default-constructed endpoint, and the null context
NoEndpoint == [layer |-> "none", set |-> 0, next |-> "none"]

VARIABLES
  status_,            \* boost::system::error_code saved by the puller
  pulling_,           \* bool
  data_queue_,        \* boost::asio::streambuf: size of its input sequence
  op_queue_,          \* pending user reads, a sequence of operation ids
  data_queue_mutex_,  \* owner thread, 0 when free
  op_queue_mutex_,    \* owner thread, 0 when free
  strand_,            \* thread running a handler of the strand, 0 when free
  strand_q,           \* functions waiting for the strand: [rd, wr]
  io_service_,        \* posted tasks: [hdno, app]
  pulls,              \* record reads issued on the TLS stream, not completed
  ops,                \* every user read: buffer size, state, result
  thr,                \* per thread: pc, ec, ret
  ncancel,            \* cancel() calls made by the owner
  stopped,            \* cancel() ran and the owner has not restarted since
  writes,             \* writes issued on the TLS stream, not completed
  nwrites,            \* write calls made by the user
  wsync,              \* threads inside a synchronous write_some
  command_handlers_,  \* per Admin: serial -> handler, NoHandler if absent
  command_handlers_mutex_,  \* per Admin: TRUE while a thread holds it
  cmd,                \* per Admin, the thread in Command: pc, serial, handler
  rcv,                \* per Admin, the thread receiving frames: pc, the
                      \* argument of ExecuteAndRemoveCommandHandler, handler
  command_serial_received_,  \* per Admin: serial of the frame last received
  fiber_,             \* per Admin: the command frame last written to fiber_
  open,               \* lowest_layer().is_open() of the TLS stream
  closed,             \* close() of the socket has returned
  handshake_ec,       \* result of the last handshake, "none" before it
  future,             \* the read a thread inside read_some waits for, or 0
  read_some_ec,       \* ec as the last read_some left it
  parameters,         \* the ParameterStack of the last endpoint construction
  ec_in,              \* ec as the caller passed it
  ec_out,             \* ec as the construction left it
  endpoint,           \* what the construction returned
  reads,              \* the parameter sets read, <<layer, position>> in order
  calls,              \* the layers whose function ran, in order
  held,               \* per thread: the mutexes it has locked, in order
  todo,               \* per thread: the lock operations left in its call
  tls_sockets,        \* per socket object: its members, 0 for an empty pointer
  aborted             \* the process has crashed

\* the adapter
avars == <<status_, pulling_, data_queue_, op_queue_, data_queue_mutex_,
           op_queue_mutex_, strand_, strand_q, io_service_, pulls, ops, thr,
           ncancel, stopped>>

\* the write side of the buffered socket
wvars == <<writes, nwrites, wsync>>

\* the admin service
mvars == <<command_handlers_, command_handlers_mutex_, cmd, rcv,
           command_serial_received_, fiber_>>

\* the buffered socket around the adapter
svars == <<open, closed, handshake_ec, future, read_some_ec>>

\* the construction of endpoints
evars == <<parameters, ec_in, ec_out, endpoint, reads, calls>>

\* the mutexes of the adapter, lock by lock
lvars == <<held, todo>>

\* the socket objects and their members
ovars == <<tls_sockets, aborted>>

vars == <<avars, wvars, mvars, svars, evars, lvars, ovars>>

(* ------------------------------ helpers -------------------------------- *)

\* op->fill_buffer(data_queue_): copy as much as the user buffer takes
fill_buffer(size, bufsize) == IF bufsize < size THEN bufsize ELSE size

Idle == [pc |-> "idle", ec |-> Success, ret |-> "idle"]

NoOp == [size |-> 0, st |-> "none", ec |-> Success, n |-> 0]

\* op->complete(ec, n) is posted
Completed(ec, n) == [size |-> 0, st |-> "done", ec |-> ec, n |-> n]

Free(m, t) == m = 0 \/ m = t

\* a thread of the Admin that is in none of its functions
NoCall == [pc |-> "idle", serial |-> 0, handler |-> NoHandler,
           request |-> StopRequest]

NextOp == Cardinality({i \in OpIds : ops[i].st # "none"}) + 1

Init ==
  /\ status_ = Success
  /\ pulling_ = FALSE
  /\ data_queue_ = 0
  /\ op_queue_ = <<>>
  /\ data_queue_mutex_ = 0
  /\ op_queue_mutex_ = 0
  /\ strand_ = 0
  /\ strand_q = [rd |-> 0, wr |-> 0]
  /\ io_service_ = [hdno |-> 0, app |-> 0]
  /\ pulls = 0
  /\ ops = [i \in OpIds |-> NoOp]
  /\ thr = [t \in Threads |-> Idle]
  /\ ncancel = 0
  /\ stopped = FALSE
  /\ writes = 0
  /\ nwrites = 0
  /\ wsync = 0
  /\ command_handlers_ = [a \in Admins |-> [s \in Serials |-> NoHandler]]
  /\ command_handlers_mutex_ = [a \in Admins |-> FALSE]
  /\ cmd = [a \in Admins |-> NoCall]
  /\ rcv = [a \in Admins |-> NoCall]
  /\ command_serial_received_ = [a \in Admins |-> 0]
  /\ fiber_ = [a \in Admins |-> NoFrame]
  /\ open = TRUE
  /\ closed = FALSE
  /\ handshake_ec = "none"
  /\ future = 0
  /\ read_some_ec = Success
  /\ parameters = [i \in 1..StackSize |-> NoParameters]
  /\ ec_in = Success
  /\ ec_out = Success
  /\ endpoint = NoEndpoint
  /\ reads = <<>>
  /\ calls = <<>>
  /\ held = [t \in Threads |-> <<>>]
  /\ todo = [t \in Threads |-> <<>>]
  /\ tls_sockets = [o \in ObjIds |-> NoSocket]
  /\ aborted = FALSE

(* --------------------------- start_pulling ----------------------------- *)

\* start_pulling without its test of pulling_
start_pulling_body_nocheck ==
  /\ pulling_' = TRUE
  /\ io_service_' = [io_service_ EXCEPT !.app = @ + 1]

\* the body of start_pulling, under pulling_mutex_
start_pulling_body ==
  IF ~pulling_
  THEN /\ pulling_' = TRUE
       /\ io_service_' = [io_service_ EXCEPT !.app = @ + 1]
  ELSE UNCHANGED <<pulling_, io_service_>>

\* start_pulling() called by the owner of the adapter
start_pulling ==
  /\ start_pulling_body
  /\ stopped' = FALSE
  /\ UNCHANGED <<status_, data_queue_, op_queue_, data_queue_mutex_,
                 op_queue_mutex_, strand_, strand_q, pulls, ops, thr, ncancel,
                 wvars, mvars, svars, evars, lvars, ovars>>

(* --------------------------- async_read_some --------------------------- *)

\* async_read_some without its test of buffer_size: every read is queued
async_read_some_body_queued(n) ==
  /\ NextOp <= MaxReads
  /\ op_queue_mutex_ = 0
  /\ op_queue_' = Append(op_queue_, NextOp)
  /\ ops' = [ops EXCEPT ![NextOp] = [NoOp EXCEPT !.size = n, !.st = "queued"]]
  /\ io_service_' = [io_service_ EXCEPT !.hdno = @ + 1]
  /\ UNCHANGED <<status_, pulling_, data_queue_, data_queue_mutex_,
                 op_queue_mutex_, strand_, strand_q, pulls, thr, ncancel,
                 stopped, wvars, mvars>>

\* TLSStreamBufferer::async_read_some with a buffer of n bytes
async_read_some_body(n) ==
  /\ NextOp <= MaxReads
  /\ IF n > 0
     THEN /\ op_queue_mutex_ = 0
          /\ op_queue_' = Append(op_queue_, NextOp)
          /\ ops' = [ops EXCEPT ![NextOp] = [NoOp EXCEPT !.size = n,
                                                         !.st = "queued"]]
          /\ io_service_' = [io_service_ EXCEPT !.hdno = @ + 1]
     ELSE /\ ops' = [ops EXCEPT ![NextOp] = Completed(Success, 0)]
          /\ UNCHANGED <<op_queue_, io_service_>>
  /\ UNCHANGED <<status_, pulling_, data_queue_, data_queue_mutex_,
                 op_queue_mutex_, strand_, strand_q, pulls, thr, ncancel,
                 stopped, wvars, mvars>>

\* async_read_some(buffers, handler) with the handler of a user
async_read_some(n) ==
  /\ async_read_some_body(n)
  /\ UNCHANGED <<svars, evars, lvars, ovars>>

\* basic_buffered_tls_socket::read_some: async_read_some(buffers,
\* use_future), then ec is set to success before read.get() blocks
read_some(n) ==
  /\ future = 0
  /\ async_read_some_body(n)
  /\ future' = NextOp
  /\ read_some_ec' = Success
  /\ UNCHANGED <<open, closed, handshake_ec, evars, lvars, ovars>>

\* read.get() returns the byte count, or throws the error the read was
\* completed with: the catch block sets ec to io_error
read_some_return ==
  /\ future # 0
  /\ ops[future].st = "done"
  /\ read_some_ec' = IF ops[future].ec = Success THEN Success ELSE io_error
  /\ future' = 0
  /\ UNCHANGED <<avars, wvars, mvars, open, closed, handshake_ec, evars, lvars, ovars>>

(* ------------------------------- cancel -------------------------------- *)

\* the end of async_pull_packets or cancel: back to the handler that called
\* it, or the thread is released
Return(t) ==
  IF thr[t].ret = "idle"
  THEN /\ thr' = [thr EXCEPT ![t] = Idle]
       /\ strand_' = IF strand_ = t THEN 0 ELSE strand_
  ELSE /\ thr' = [thr EXCEPT ![t].pc = thr[t].ret, ![t].ret = "idle"]
       /\ UNCHANGED strand_

\* the owner calls cancel() on thread t; first block: pulling_ = false under
\* pulling_mutex_
cancel(t) ==
  /\ thr[t].pc = "idle"
  /\ ncancel < MaxCancels
  /\ ncancel' = ncancel + 1
  /\ pulling_' = FALSE
  /\ stopped' = TRUE
  /\ thr' = [thr EXCEPT ![t] = [Idle EXCEPT !.pc = "c1"]]
  /\ UNCHANGED <<status_, data_queue_, op_queue_, data_queue_mutex_,
                 op_queue_mutex_, strand_, strand_q, io_service_, pulls, ops,
                 wvars, mvars, svars, evars, lvars, ovars>>

\* cancel with an if in the place of its while: only the first pending read
\* is aborted
cancel_clear_first(t) ==
  /\ thr[t].pc = "c1"
  /\ Free(data_queue_mutex_, t) /\ Free(op_queue_mutex_, t)
  /\ data_queue_' = 0
  /\ op_queue_' = IF op_queue_ = <<>> THEN <<>> ELSE Tail(op_queue_)
  /\ ops' = [i \in OpIds |-> IF op_queue_ # <<>> /\ i = Head(op_queue_)
                             THEN Completed(operation_aborted, 0)
                             ELSE ops[i]]
  /\ Return(t)
  /\ closed' = (closed \/ (thr[t].ret = "idle" /\ ~open))
  /\ UNCHANGED <<status_, pulling_, data_queue_mutex_, op_queue_mutex_,
                 strand_q, io_service_, pulls, ncancel, stopped, wvars, mvars,
                 open, handshake_ec, future, read_some_ec, evars, lvars, ovars>>

\* cancel, second block: under data_queue_mutex_ and op_queue_mutex_
cancel_clear(t) ==
  /\ thr[t].pc = "c1"
  /\ Free(data_queue_mutex_, t) /\ Free(op_queue_mutex_, t)
  /\ data_queue_' = 0
  /\ op_queue_' = <<>>
  /\ ops' = [i \in OpIds |-> IF ops[i].st = "queued"
                             THEN Completed(operation_aborted, 0)
                             ELSE ops[i]]
  /\ Return(t)
  /\ closed' = (closed \/ (thr[t].ret = "idle" /\ ~open))
  /\ UNCHANGED <<status_, pulling_, data_queue_mutex_, op_queue_mutex_,
                 strand_q, io_service_, pulls, ncancel, stopped, wvars, mvars,
                 open, handshake_ec, future, read_some_ec, evars, lvars, ovars>>

(* -------------------------- handshake and close ------------------------ *)

\* basic_buffered_tls_socket::handshake and the handler of async_handshake:
\* the pulling starts when the TLS handshake succeeded; when it failed the
\* error is handed to the caller
handshake(ec) ==
  /\ handshake_ec = "none"
  /\ handshake_ec' = ec
  /\ IF ec = Success
     THEN start_pulling_body /\ stopped' = FALSE
     ELSE UNCHANGED <<pulling_, io_service_, stopped>>
  /\ UNCHANGED <<status_, data_queue_, op_queue_, data_queue_mutex_,
                 op_queue_mutex_, strand_, strand_q, pulls, ops, thr, ncancel,
                 wvars, mvars, open, closed, future, read_some_ec, evars, lvars, ovars>>

\* basic_buffered_tls_socket::close on thread t:
\* socket_.get().lowest_layer().close(ec)
close(t) ==
  /\ thr[t].pc = "idle"
  /\ ncancel < MaxCancels
  /\ ncancel' = ncancel + 1
  /\ open' = FALSE
  /\ thr' = [thr EXCEPT ![t] = [Idle EXCEPT !.pc = "c0"]]
  /\ UNCHANGED <<status_, pulling_, data_queue_, op_queue_, data_queue_mutex_,
                 op_queue_mutex_, strand_, strand_q, io_service_, pulls, ops,
                 stopped, wvars, mvars, closed, handshake_ec, future,
                 read_some_ec, evars, lvars, ovars>>

\* close that returns once the lowest layer is closed, as the close of
\* basic_tls_socket does
close_no_cancel(t) ==
  /\ thr[t].pc = "c0"
  /\ closed' = TRUE
  /\ thr' = [thr EXCEPT ![t] = Idle]
  /\ UNCHANGED <<status_, pulling_, data_queue_, op_queue_, data_queue_mutex_,
                 op_queue_mutex_, strand_, strand_q, io_service_, pulls, ops,
                 ncancel, stopped, wvars, mvars, open, handshake_ec, future,
                 read_some_ec, evars, lvars, ovars>>

\* close goes on with p_puller_->cancel(cancel_ec): its first block
close_cancel(t) ==
  /\ thr[t].pc = "c0"
  /\ pulling_' = FALSE
  /\ stopped' = TRUE
  /\ thr' = [thr EXCEPT ![t].pc = "c1"]
  /\ UNCHANGED <<status_, data_queue_, op_queue_, data_queue_mutex_,
                 op_queue_mutex_, strand_, strand_q, io_service_, pulls, ops,
                 ncancel, wvars, mvars, svars, evars, lvars, ovars>>

(* -------------------------- handle_data_n_ops -------------------------- *)

\* if (!status_): read outside any lock
hdno_status(t) ==
  /\ thr[t].pc = "h0"
  /\ thr' = [thr EXCEPT ![t].pc = IF status_ = Success THEN "h1" ELSE "hE"]
  /\ UNCHANGED <<status_, pulling_, data_queue_, op_queue_, data_queue_mutex_,
                 op_queue_mutex_, strand_, strand_q, io_service_, pulls, ops,
                 ncancel, stopped, wvars, mvars, svars, evars, lvars, ovars>>

\* a posted handle_data_n_ops starts on an idle thread and reads status_
run_handle_data_n_ops(t) ==
  /\ thr[t].pc = "idle"
  /\ io_service_.hdno > 0
  /\ io_service_' = [io_service_ EXCEPT !.hdno = @ - 1]
  /\ thr' = [thr EXCEPT ![t] =
               [Idle EXCEPT !.pc = IF status_ = Success THEN "h1" ELSE "hE"]]
  /\ UNCHANGED <<status_, pulling_, data_queue_, op_queue_, data_queue_mutex_,
                 op_queue_mutex_, strand_, strand_q, pulls, ops, ncancel,
                 stopped, wvars, mvars, svars, evars, lvars, ovars>>

\* handle_data_n_ops without its restart of the pulling
hdno_no_resume(t) ==
  /\ thr[t].pc = "h1"
  /\ thr' = [thr EXCEPT ![t].pc = "h2"]
  /\ UNCHANGED <<status_, pulling_, data_queue_, op_queue_, data_queue_mutex_,
                 op_queue_mutex_, strand_, strand_q, io_service_, pulls, ops,
                 ncancel, stopped, wvars, mvars, svars, evars, lvars, ovars>>

\* under pulling_mutex_: restart the pulling below the low-water mark
hdno_resume(t) ==
  /\ thr[t].pc = "h1"
  /\ IF data_queue_ < lower_queue_size_bound /\ ~pulling_
     THEN start_pulling_body
     ELSE UNCHANGED <<pulling_, io_service_>>
  /\ thr' = [thr EXCEPT ![t].pc = "h2"]
  /\ UNCHANGED <<status_, data_queue_, op_queue_, data_queue_mutex_,
                 op_queue_mutex_, strand_, strand_q, pulls, ops, ncancel,
                 stopped, wvars, mvars, svars, evars, lvars, ovars>>

\* handle_data_n_ops returns, and with it every frame of its recursion
hdno_end(t) ==
  /\ thr' = [thr EXCEPT ![t] = Idle]
  /\ strand_' = IF strand_ = t THEN 0 ELSE strand_
  /\ data_queue_mutex_' = 0
  /\ op_queue_mutex_' = 0

\* handle_data_n_ops serving the read queued last
hdno_serve_last(t) ==
  /\ thr[t].pc = "h2"
  /\ Free(data_queue_mutex_, t) /\ Free(op_queue_mutex_, t)
  /\ IF op_queue_ # <<>> /\ data_queue_ > 0
     THEN LET op == op_queue_[Len(op_queue_)]
              copied == fill_buffer(data_queue_, ops[op].size)
          IN  /\ op_queue_' = SubSeq(op_queue_, 1, Len(op_queue_) - 1)
              /\ data_queue_' = data_queue_ - copied
              /\ ops' = [ops EXCEPT ![op] = Completed(Success, copied)]
              /\ data_queue_mutex_' = t
              /\ op_queue_mutex_' = t
              /\ thr' = [thr EXCEPT ![t].pc = "h0"]
              /\ UNCHANGED strand_
     ELSE /\ hdno_end(t)
          /\ UNCHANGED <<op_queue_, data_queue_, ops>>
  /\ UNCHANGED <<status_, pulling_, strand_q, io_service_, pulls, ncancel,
                 stopped, wvars, mvars, svars, evars, lvars, ovars>>

\* status OK, under both queue mutexes: serve the first pending read
hdno_serve(t) ==
  /\ thr[t].pc = "h2"
  /\ Free(data_queue_mutex_, t) /\ Free(op_queue_mutex_, t)
  /\ IF op_queue_ # <<>> /\ data_queue_ > 0
     THEN LET op == Head(op_queue_)
              copied == fill_buffer(data_queue_, ops[op].size)
          IN  /\ op_queue_' = Tail(op_queue_)
              /\ data_queue_' = data_queue_ - copied
              /\ ops' = [ops EXCEPT ![op] = Completed(Success, copied)]
              /\ data_queue_mutex_' = t
              /\ op_queue_mutex_' = t
              /\ thr' = [thr EXCEPT ![t].pc = "h0"]
              /\ UNCHANGED strand_
     ELSE /\ hdno_end(t)
          /\ UNCHANGED <<op_queue_, data_queue_, ops>>
  /\ UNCHANGED <<status_, pulling_, strand_q, io_service_, pulls, ncancel,
                 stopped, wvars, mvars, svars, evars, lvars, ovars>>

\* the error branch of handle_data_n_ops without its op_queue_.pop()
hdno_fail_no_pop(t) ==
  /\ thr[t].pc = "hE"
  /\ Free(data_queue_mutex_, t) /\ Free(op_queue_mutex_, t)
  /\ IF op_queue_ # <<>>
     THEN LET op == Head(op_queue_)
          IN  /\ ops' = [ops EXCEPT ![op].st = "posted", ![op].size = 0]
              /\ data_queue_mutex_' = t
              /\ op_queue_mutex_' = t
              /\ thr' = [thr EXCEPT ![t].pc = "h0"]
              /\ UNCHANGED strand_
     ELSE /\ hdno_end(t)
          /\ UNCHANGED ops
  /\ UNCHANGED <<status_, pulling_, data_queue_, op_queue_, strand_q,
                 io_service_, pulls, ncancel, stopped, wvars, mvars, svars,
                 evars, lvars, ovars>>

\* status is an error, under both queue mutexes: fail the first pending read
hdno_fail(t) ==
  /\ thr[t].pc = "hE"
  /\ Free(data_queue_mutex_, t) /\ Free(op_queue_mutex_, t)
  /\ IF op_queue_ # <<>>
     THEN LET op == Head(op_queue_)
          IN  /\ op_queue_' = Tail(op_queue_)
              /\ ops' = [ops EXCEPT ![op].st = "posted", ![op].size = 0]
              /\ data_queue_mutex_' = t
              /\ op_queue_mutex_' = t
              /\ thr' = [thr EXCEPT ![t].pc = "h0"]
              /\ UNCHANGED strand_
     ELSE /\ hdno_end(t)
          /\ UNCHANGED <<op_queue_, ops>>
  /\ UNCHANGED <<status_, pulling_, data_queue_, strand_q, io_service_, pulls,
                 ncancel, stopped, wvars, mvars, svars, evars, lvars, ovars>>

\* the do_complete posted by the error branch runs: op->complete(status_, 0)
\* reads status_ only now
do_complete(i) ==
  /\ ops[i].st = "posted"
  /\ ops' = [ops EXCEPT ![i] = Completed(status_, 0)]
  /\ UNCHANGED <<status_, pulling_, data_queue_, op_queue_, data_queue_mutex_,
                 op_queue_mutex_, strand_, strand_q, io_service_, pulls, thr,
                 ncancel, stopped, wvars, mvars, svars, evars, lvars, ovars>>

(* -------------------------- async_pull_packets ------------------------- *)

\* under data_queue_mutex_: prepare a record, then read through the strand,
\* or pause.  strand_.dispatch runs the read at once when the strand is free
\* or is the caller's, and queues it otherwise.
async_pull_packets_body(t) ==
  /\ Free(data_queue_mutex_, t)
  /\ IF data_queue_ < higher_queue_size_bound
     THEN /\ IF Free(strand_, t)
             THEN pulls' = pulls + 1 /\ UNCHANGED strand_q
             ELSE strand_q' = [strand_q EXCEPT !.rd = @ + 1] /\ UNCHANGED pulls
          /\ UNCHANGED pulling_
     ELSE /\ pulling_' = FALSE
          /\ UNCHANGED <<pulls, strand_q>>

\* a posted async_pull_packets runs on an idle thread
run_async_pull_packets(t) ==
  /\ thr[t].pc = "idle"
  /\ io_service_.app > 0
  /\ io_service_' = [io_service_ EXCEPT !.app = @ - 1]
  /\ async_pull_packets_body(t)
  /\ UNCHANGED <<status_, data_queue_, op_queue_, data_queue_mutex_,
                 op_queue_mutex_, strand_, ops, thr, ncancel, stopped,
                 wvars, mvars, svars, evars, lvars, ovars>>

\* async_pull_packets dispatched by the completion handler, run inline
async_pull_packets(t) ==
  /\ thr[t].pc = "a1"
  /\ async_pull_packets_body(t)
  /\ Return(t)
  /\ UNCHANGED <<status_, data_queue_, op_queue_, data_queue_mutex_,
                 op_queue_mutex_, io_service_, ops, ncancel, stopped,
                 wvars, mvars, svars, evars, lvars, ovars>>

\* the strand runs a queued socket_.async_read_some
strand_read(t) ==
  /\ thr[t].pc = "idle"
  /\ strand_ = 0
  /\ strand_q.rd > 0
  /\ strand_q' = [strand_q EXCEPT !.rd = @ - 1]
  /\ pulls' = pulls + 1
  /\ UNCHANGED <<status_, pulling_, data_queue_, op_queue_, data_queue_mutex_,
                 op_queue_mutex_, strand_, io_service_, ops, thr, ncancel,
                 stopped, wvars, mvars, svars, evars, lvars, ovars>>

(* ------------------- completion of a record read ----------------------- *)

\* the strand-wrapped handler of socket_.async_read_some runs on thread t
pull_start(t) ==
  /\ thr[t].pc = "idle"
  /\ strand_ = 0
  /\ pulls > 0
  /\ pulls' = pulls - 1
  /\ strand_' = t

\* !ec: commit under data_queue_mutex_
pull_commit(t, length) ==
  /\ pull_start(t)
  /\ Free(data_queue_mutex_, t)
  /\ data_queue_' = data_queue_ + length
  /\ thr' = [thr EXCEPT ![t] = [Idle EXCEPT !.pc = "p_chk"]]
  /\ UNCHANGED <<status_, pulling_, op_queue_, data_queue_mutex_,
                 op_queue_mutex_, strand_q, io_service_, ops, ncancel, stopped,
                 wvars, mvars, svars, evars, lvars, ovars>>

\* if (!status_) dispatch async_pull_packets; then handle_data_n_ops
pull_again(t) ==
  /\ thr[t].pc = "p_chk"
  /\ thr' = [thr EXCEPT ![t] = IF status_ = Success
                               THEN [Idle EXCEPT !.pc = "a1", !.ret = "h0"]
                               ELSE [Idle EXCEPT !.pc = "h0"]]
  /\ UNCHANGED <<status_, pulling_, data_queue_, op_queue_, data_queue_mutex_,
                 op_queue_mutex_, strand_, strand_q, io_service_, pulls, ops,
                 ncancel, stopped, wvars, mvars, svars, evars, lvars, ovars>>

\* ec is operation_aborted: cancel(cancel_ec), its first block
pull_aborted(t) ==
  /\ pull_start(t)
  /\ pulling_' = FALSE
  /\ stopped' = TRUE
  /\ thr' = [thr EXCEPT ![t] = [Idle EXCEPT !.pc = "c1", !.ret = "h0"]]
  /\ UNCHANGED <<status_, data_queue_, op_queue_, data_queue_mutex_,
                 op_queue_mutex_, strand_q, io_service_, ops, ncancel,
                 wvars, mvars, svars, evars, lvars, ovars>>

\* another error: data_queue_.consume(data_queue_.size()), no lock held
pull_error(t, ec) ==
  /\ pull_start(t)
  /\ data_queue_' = 0
  /\ thr' = [thr EXCEPT ![t] = [Idle EXCEPT !.pc = "p_err", !.ec = ec]]
  /\ UNCHANGED <<status_, pulling_, op_queue_, data_queue_mutex_,
                 op_queue_mutex_, strand_q, io_service_, ops, ncancel, stopped,
                 wvars, mvars, svars, evars, lvars, ovars>>

\* this->status_ = ec, then handle_data_n_ops
pull_error_status(t) ==
  /\ thr[t].pc = "p_err"
  /\ status_' = thr[t].ec
  /\ thr' = [thr EXCEPT ![t] = [Idle EXCEPT !.pc = "h0"]]
  /\ UNCHANGED <<pulling_, data_queue_, op_queue_, data_queue_mutex_,
                 op_queue_mutex_, strand_, strand_q, io_service_, pulls, ops,
                 ncancel, stopped, wvars, mvars, svars, evars, lvars, ovars>>

(* ------------------- the write side of the socket --------------------- *)

\* async_write_some held back while reads are pending
async_write_some_after_reads ==
  /\ nwrites < MaxWrites
  /\ op_queue_ = <<>>
  /\ nwrites' = nwrites + 1
  /\ \/ /\ strand_ = 0
        /\ writes' = writes + 1
        /\ UNCHANGED strand_q
     \/ /\ strand_q' = [strand_q EXCEPT !.wr = @ + 1]
        /\ UNCHANGED writes
  /\ UNCHANGED <<status_, pulling_, data_queue_, op_queue_, data_queue_mutex_,
                 op_queue_mutex_, strand_, io_service_, pulls, ops, thr,
                 ncancel, stopped, wsync, mvars, svars, evars, lvars, ovars>>

\* basic_buffered_tls_socket::async_write_some: p_strand_->dispatch of the
\* write on the TLS stream.  The write runs at once when the caller is a
\* thread of the io_service and the strand is free, and is queued otherwise.
async_write_some ==
  /\ nwrites < MaxWrites
  /\ nwrites' = nwrites + 1
  /\ \/ /\ strand_ = 0
        /\ writes' = writes + 1
        /\ UNCHANGED strand_q
     \/ /\ strand_q' = [strand_q EXCEPT !.wr = @ + 1]
        /\ UNCHANGED writes
  /\ UNCHANGED <<status_, pulling_, data_queue_, op_queue_, data_queue_mutex_,
                 op_queue_mutex_, strand_, io_service_, pulls, ops, thr,
                 ncancel, stopped, wsync, mvars, svars, evars, lvars, ovars>>

\* the strand runs a queued socket_.get().async_write_some
strand_write(t) ==
  /\ thr[t].pc = "idle"
  /\ strand_ = 0
  /\ strand_q.wr > 0
  /\ strand_q' = [strand_q EXCEPT !.wr = @ - 1]
  /\ writes' = writes + 1
  /\ UNCHANGED <<status_, pulling_, data_queue_, op_queue_, data_queue_mutex_,
                 op_queue_mutex_, strand_, io_service_, pulls, ops, thr,
                 ncancel, stopped, nwrites, wsync, mvars, svars, evars, lvars, ovars>>

\* the strand-wrapped handler of the write runs: the user's handler is called
write_complete(t) ==
  /\ thr[t].pc = "idle"
  /\ strand_ = 0
  /\ writes > 0
  /\ writes' = writes - 1
  /\ UNCHANGED <<avars, nwrites, wsync, mvars, svars, evars, lvars, ovars>>

\* basic_buffered_tls_socket::write_some: the calling thread enters
\* socket_.get().write_some
write_some ==
  /\ nwrites < MaxWrites
  /\ nwrites' = nwrites + 1
  /\ wsync' = wsync + 1
  /\ UNCHANGED <<avars, writes, mvars, svars, evars, lvars, ovars>>

\* socket_.get().write_some returns
write_some_return ==
  /\ wsync > 0
  /\ wsync' = wsync - 1
  /\ UNCHANGED <<avars, writes, nwrites, mvars, svars, evars, lvars, ovars>>

(* ------------------------------- Admin --------------------------------- *)

Min(S) == CHOOSE x \in S : \A y \in S : x <= y

\* the serials that have an entry in command_handlers_
Registered(a) == {s \in Serials : command_handlers_[a][s] # NoHandler}

\* the result of GetAvailableSerial of the Admin with is_server_ = a:
\* for (serial = 3; serial < max; ++serial) on serial + !!is_server_
GetAvailableSerial(a) ==
  LET off == IF a THEN 1 ELSE 0
      free == {serial \in 3..(uint32_max - 1) :
                 serial + off \notin Registered(a)}
  IN  IF free = {} THEN 0 ELSE Min(free) + off

\* Command(request, handler) is called: it enters GetAvailableSerial, which
\* takes command_handlers_mutex_
Command(a, request, handler) ==
  /\ cmd[a].pc = "idle"
  /\ ~command_handlers_mutex_[a]
  /\ command_handlers_mutex_' = [command_handlers_mutex_ EXCEPT ![a] = TRUE]
  /\ cmd' = [cmd EXCEPT ![a] = [NoCall EXCEPT !.pc = "g1", !.handler = handler,
                                              !.request = request]]
  /\ UNCHANGED <<command_handlers_, rcv, command_serial_received_, fiber_,
                 avars, wvars, svars, evars, lvars, ovars>>

\* GetAvailableSerial returns: the first free serial, reserved by an empty
\* handler, or 0 when every serial is taken; the mutex is released
GetAvailableSerial_return(a) ==
  /\ cmd[a].pc = "g1"
  /\ LET serial == GetAvailableSerial(a)
     IN  /\ command_handlers_' =
               IF serial = 0 THEN command_handlers_
               ELSE [command_handlers_ EXCEPT ![a][serial] = Placeholder]
         /\ cmd' = [cmd EXCEPT ![a].pc = "i0", ![a].serial = serial]
  /\ command_handlers_mutex_' = [command_handlers_mutex_ EXCEPT ![a] = FALSE]
  /\ UNCHANGED <<rcv, command_serial_received_, fiber_, avars, wvars, svars,
                 evars, lvars, ovars>>

\* InsertHandler(serial, handler) under the mutex
InsertHandler(a) ==
  /\ cmd[a].pc = "i0"
  /\ ~command_handlers_mutex_[a]
  /\ command_handlers_' =
       [command_handlers_ EXCEPT ![a][cmd[a].serial] = cmd[a].handler]
  /\ cmd' = [cmd EXCEPT ![a].pc = "s0"]
  /\ UNCHANGED <<command_handlers_mutex_, rcv, command_serial_received_,
                 fiber_, avars, wvars, svars, evars, lvars, ovars>>

\* the AdminCommand Command builds from serial, request.command_id and the
\* serialized parameters
AdminCommand(serial, request) ==
  [serial |-> serial, command_id |-> request.command_id,
   payload_len |-> Len(request.payload), payload |-> request.payload]

\* Command that writes its frame before it registers the handler
AsyncSendCommand_first(a) ==
  /\ cmd[a].pc = "i0"
  /\ fiber_' = [fiber_ EXCEPT ![a] = AdminCommand(cmd[a].serial, cmd[a].request)]
  /\ UNCHANGED <<command_handlers_, command_handlers_mutex_, cmd, rcv,
                 command_serial_received_, avars, wvars, svars, evars, lvars, ovars>>

\* AsyncSendCommand(*p_command, do_handler): the frame is written to
\* fiber_, and Command returns
AsyncSendCommand(a) ==
  /\ cmd[a].pc = "s0"
  /\ fiber_' = [fiber_ EXCEPT ![a] = AdminCommand(cmd[a].serial, cmd[a].request)]
  /\ cmd' = [cmd EXCEPT ![a] = NoCall]
  /\ UNCHANGED <<command_handlers_, command_handlers_mutex_, rcv,
                 command_serial_received_, avars, wvars, svars, evars, lvars, ovars>>

\* a frame with the serial received has been read into
\* command_serial_received_; ExecuteAndRemoveCommandHandler(serial) evaluates
\* command_handlers_.count(command_serial_received_), no mutex taken
ExecuteAndRemoveCommandHandler(a, received, serial) ==
  /\ rcv[a].pc = "idle"
  /\ command_serial_received_' = [command_serial_received_ EXCEPT ![a] = received]
  /\ rcv' = [rcv EXCEPT ![a].pc =
               IF received \in Registered(a) THEN "r1" ELSE "idle",
                        ![a].serial = serial]
  /\ UNCHANGED <<command_handlers_, command_handlers_mutex_, cmd, fiber_,
                 avars, wvars, svars, evars, lvars, ovars>>

\* command_handler = command_handlers_[command_serial_received_], no mutex
\* taken, and the handler is posted to the io_service
post_command_handler(a) ==
  /\ rcv[a].pc = "r1"
  /\ rcv' = [rcv EXCEPT ![a].pc = "r2",
               ![a].handler = command_handlers_[a][command_serial_received_[a]]]
  /\ UNCHANGED <<command_handlers_, command_handlers_mutex_, cmd,
                 command_serial_received_, fiber_, avars, wvars, svars, evars, lvars, ovars>>

\* EraseHandler(serial) under the mutex
EraseHandler(a, serial) ==
  /\ ~command_handlers_mutex_[a]
  /\ command_handlers_' = [command_handlers_ EXCEPT ![a][serial] = NoHandler]

\* this->EraseHandler(command_serial_received_) at the end of
\* ExecuteAndRemoveCommandHandler
erase_command_handler(a) ==
  /\ rcv[a].pc = "r2"
  /\ EraseHandler(a, command_serial_received_[a])
  /\ rcv' = [rcv EXCEPT ![a].pc = "idle", ![a].handler = NoHandler]
  /\ UNCHANGED <<command_handlers_mutex_, cmd, command_serial_received_,
                 fiber_, avars, wvars, svars, evars, lvars, ovars>>

(* ----------------------- construction of endpoints -------------------- *)

\* detail::make_tcp_endpoint(io_service, *parameters_it, ec)
make_tcp_endpoint(set, e) == IF set.valid THEN e ELSE invalid_argument

\* MakeProxyContext(io_service, *parameters_it, ec)
MakeProxyContext(set, e) == IF set.valid THEN e ELSE invalid_argument

\* context.UpdateRemoteHost(*parameters_it)
UpdateRemoteHost(set) == set.host

\* detail::make_tls_context(io_service, *parameters_it): TRUE for a context,
\* FALSE for a null one
make_tls_context(set) == set.valid

\* tcp::make_endpoint: the endpoint, ec, the sets read, the functions called
tcp_make_endpoint(params, it, e) ==
  [endpoint |-> [layer |-> "tcp", set |-> it, next |-> "none"],
   ec |-> make_tcp_endpoint(params[it], e),
   reads |-> <<<<"tcp", it>>>>,
   calls |-> <<"tcp">>]

\* basic_ProxyProtocol::make_endpoint that hands its own iterator to the
\* next layer
proxy_make_endpoint_no_advance(params, it, e) ==
  LET ctx_ec == MakeProxyContext(params[it], e)
      next == tcp_make_endpoint(params, it, ctx_ec)
  IN  IF ctx_ec # Success
      THEN [endpoint |-> NoEndpoint, ec |-> ctx_ec,
            reads |-> <<<<"proxy", it>>>>, calls |-> <<"proxy">>]
      ELSE [endpoint |-> [layer |-> "proxy", set |-> it, next |-> "tcp"],
            ec |-> next.ec,
            reads |-> <<<<"proxy", it>>>> \o next.reads,
            calls |-> <<"proxy">> \o next.calls]

\* basic_ProxyProtocol<tcp>::make_endpoint
proxy_make_endpoint(params, it, e) ==
  LET ctx_ec == MakeProxyContext(params[it], e)
      next == tcp_make_endpoint(params, it + 1, ctx_ec)
  IN  IF ctx_ec # Success
      THEN [endpoint |-> NoEndpoint, ec |-> ctx_ec,
            reads |-> <<<<"proxy", it>>>>, calls |-> <<"proxy">>]
      ELSE IF ~params[it].acceptor /\ UpdateRemoteHost(params[it + 1])
      THEN [endpoint |-> [layer |-> "proxy", set |-> it, next |-> "none"],
            ec |-> ctx_ec,
            reads |-> <<<<"proxy", it>>, <<"proxy", it + 1>>>>,
            calls |-> <<"proxy">>]
      ELSE [endpoint |-> [layer |-> "proxy", set |-> it, next |-> "tcp"],
            ec |-> next.ec,
            reads |-> <<<<"proxy", it>>>> \o
                      (IF params[it].acceptor THEN <<>>
                       ELSE <<<<"proxy", it + 1>>>>) \o next.reads,
            calls |-> <<"proxy">> \o next.calls]

\* make_endpoint_context that reports nothing
tls_make_endpoint_context_silent(params, it, e) ==
  [endpoint |-> IF make_tls_context(params[it])
                THEN [layer |-> "tls", set |-> it, next |-> "none"]
                ELSE NoEndpoint,
   ec |-> e,
   reads |-> <<<<"tls", it>>>>,
   calls |-> <<"tls">>]

\* basic_tls::make_endpoint_context
tls_make_endpoint_context(params, it, e) ==
  [endpoint |-> IF make_tls_context(params[it])
                THEN [layer |-> "tls", set |-> it, next |-> "none"]
                ELSE NoEndpoint,
   ec |-> IF make_tls_context(params[it]) THEN e ELSE invalid_argument,
   reads |-> <<<<"tls", it>>>>,
   calls |-> <<"tls">>]

\* a caller has built r from the stack params, passing e for ec
Constructed(params, e, r) ==
  /\ parameters' = params
  /\ ec_in' = e
  /\ ec_out' = r.ec
  /\ endpoint' = r.endpoint
  /\ reads' = r.reads
  /\ calls' = r.calls
  /\ UNCHANGED <<avars, wvars, mvars, svars, lvars, ovars>>

\* basic_ProxyProtocol<tcp>::make_endpoint(io_service, begin(params), 0, ec)
make_endpoint(params, e) ==
  Constructed(params, e, proxy_make_endpoint(params, 1, e))

\* basic_tls::make_endpoint_context(io_service, begin(params), 0, ec)
make_endpoint_context(params, e) ==
  Constructed(params, e, tls_make_endpoint_context(params, 1, e))

(* ----------------------- the mutexes, lock by lock --------------------- *)

\* The calls of the adapter as the sequences of lock operations they make.
\* Which branch a call takes depends on data the locks do not protect one
\* from another, so that a call is any of the sequences its branches give.

Lock(m) == <<"lock", m>>

Unlock(m) == <<"unlock", m>>

\* start_pulling: pulling_mutex_ around its test and its post
start_pulling_locks ==
  <<Lock("pulling_mutex_"), Unlock("pulling_mutex_")>>

\* async_read_some with a buffer: op_queue_mutex_ around the push
async_read_some_locks ==
  <<Lock("op_queue_mutex_"), Unlock("op_queue_mutex_")>>

\* cancel that locks op_queue_mutex_ before data_queue_mutex_
cancel_locks_reversed ==
  <<Lock("pulling_mutex_"), Unlock("pulling_mutex_"),
    Lock("op_queue_mutex_"), Lock("data_queue_mutex_"),
    Unlock("data_queue_mutex_"), Unlock("op_queue_mutex_")>>

\* cancel: pulling_mutex_ in its block, then lock1 and lock2 to the end
cancel_locks ==
  <<Lock("pulling_mutex_"), Unlock("pulling_mutex_"),
    Lock("data_queue_mutex_"), Lock("op_queue_mutex_"),
    Unlock("op_queue_mutex_"), Unlock("data_queue_mutex_")>>

\* async_pull_packets: data_queue_mutex_ around prepare and the dispatch of
\* the read
async_pull_packets_locks ==
  <<Lock("data_queue_mutex_"), Unlock("data_queue_mutex_")>>

RECURSIVE handle_data_n_ops_locks(_)

\* handle_data_n_ops, which may nest depth further calls of itself: with
\* status_ OK pulling_mutex_ in its block, start_pulling inside it or not,
\* then lock1 and lock2, under which io_service_.dispatch runs the next
\* handle_data_n_ops when a read was served; with an error lock1 and lock2
\* the same way
handle_data_n_ops_locks(depth) ==
  LET nested == {<<>>} \cup (IF depth = 0 THEN {}
                             ELSE handle_data_n_ops_locks(depth - 1))
      queues == {<<Lock("data_queue_mutex_"), Lock("op_queue_mutex_")>> \o n \o
                 <<Unlock("op_queue_mutex_"), Unlock("data_queue_mutex_")>> :
                 n \in nested}
  IN  queues \cup
      {<<Lock("pulling_mutex_")>> \o s \o <<Unlock("pulling_mutex_")>> \o q :
         s \in {<<>>, start_pulling_locks}, q \in queues}

\* the handler of a record read: a commit under data_queue_mutex_ and
\* async_pull_packets or not, or cancel, or neither, then handle_data_n_ops.
\* The strand lets one handler run at a time and makes no thread wait; it
\* is left out, which allows more interleavings than the code has.
handler_locks ==
  {c \o h : c \in {async_pull_packets_locks,
                    async_pull_packets_locks \o async_pull_packets_locks,
                    cancel_locks, <<>>},
            h \in handle_data_n_ops_locks(MaxDepth)}

\* the calls threads make into the adapter
Calls ==
  {start_pulling_locks, async_read_some_locks, cancel_locks,
   async_pull_packets_locks}
    \cup handle_data_n_ops_locks(MaxDepth) \cup handler_locks

\* thread u holds the mutex m
Holds(u, m) == \E k \in 1..Len(held[u]) : held[u][k] = m

\* thread t can make the next lock operation of its call: a recursive mutex
\* is locked when no other thread holds it
CanStep(t) ==
  /\ todo[t] # <<>>
  /\ Head(todo[t])[1] = "lock" =>
       \A u \in Threads \ {t} : ~Holds(u, Head(todo[t])[2])

\* thread t enters a call of the adapter
Call(t, locks) ==
  /\ todo[t] = <<>>
  /\ todo' = [todo EXCEPT ![t] = locks]
  /\ UNCHANGED <<held, avars, wvars, mvars, svars, evars, ovars>>

\* std::unique_lock<std::recursive_mutex> lock(m)
Acquire(t) ==
  /\ CanStep(t)
  /\ Head(todo[t])[1] = "lock"
  /\ held' = [held EXCEPT ![t] = Append(@, Head(todo[t])[2])]
  /\ todo' = [todo EXCEPT ![t] = Tail(@)]
  /\ UNCHANGED <<avars, wvars, mvars, svars, evars, ovars>>

\* the unique_lock taken last goes out of scope
Release(t) ==
  /\ CanStep(t)
  /\ Head(todo[t])[1] = "unlock"
  /\ held' = [held EXCEPT ![t] = SubSeq(@, 1, Len(@) - 1)]
  /\ todo' = [todo EXCEPT ![t] = Tail(@)]
  /\ UNCHANGED <<avars, wvars, mvars, svars, evars, ovars>>

(* ---------------------------- specifications --------------------------- *)

\* the steps of the TLSStreamBufferer but the owner's cancel()
Puller ==
  \/ start_pulling
  \/ \E n \in ReadSizes : async_read_some(n)
  \/ \E i \in OpIds : do_complete(i)
  \/ \E t \in Threads :
       \/ cancel_clear(t)
       \/ run_handle_data_n_ops(t)
       \/ hdno_status(t)
       \/ hdno_resume(t)
       \/ hdno_serve(t)
       \/ hdno_fail(t)
       \/ run_async_pull_packets(t)
       \/ async_pull_packets(t)
       \/ strand_read(t)
       \/ pull_again(t)
       \/ pull_aborted(t)
       \/ pull_error_status(t)
       \/ \E len \in PullLens : pull_commit(t, len)
       \/ \E ec \in Errors : pull_error(t, ec)

\* the TLSStreamBufferer
Next ==
  \/ Puller
  \/ \E t \in Threads : cancel(t)

Spec == Init /\ [][Next]_vars

\* the buffered socket, reading through its puller and writing
NextSocket ==
  \/ Puller
  \/ async_write_some
  \/ write_some
  \/ write_some_return
  \/ \E t \in Threads : strand_write(t) \/ write_complete(t)

SpecSocket == Init /\ [][NextSocket]_vars

\* the buffered socket, read and closed
NextClose ==
  \/ Puller
  \/ \E t \in Threads : close(t) \/ close_cancel(t)

SpecClose == Init /\ [][NextClose]_vars

\* the buffered socket from its handshake on, read through async_read_some
\* and read_some
NextStream ==
  \/ Puller
  \/ \E ec \in {Success, handshake_failed} : handshake(ec)
  \/ \E n \in ReadSizes : read_some(n)
  \/ read_some_return

SpecStream == Init /\ [][NextStream]_vars

\* endpoints built from every stack of parameter sets
NextEndpoint ==
  \E params \in [1..StackSize -> ParameterSets], e \in CallerEc :
    \/ make_endpoint(params, e)
    \/ make_endpoint_context(params, e)

SpecEndpoint == Init /\ [][NextEndpoint]_vars

\* the steps of the Admin with is_server_ = a; the serial of the frame
\* received is the argument of ExecuteAndRemoveCommandHandler
Admin(a) ==
  \/ GetAvailableSerial_return(a)
  \/ InsertHandler(a)
  \/ AsyncSendCommand(a)
  \/ \E received \in Serials :
       ExecuteAndRemoveCommandHandler(a, received, received)
  \/ post_command_handler(a)
  \/ erase_command_handler(a)

\* the Admin objects of the two peers, each with at most MaxHandlers
\* entries in its table and one handler for all its commands
NextAdmin ==
  \E a \in Admins :
    \/ Admin(a)
    \/ /\ Cardinality(Registered(a)) < MaxHandlers
       /\ Command(a, StopRequest, "h1")

SpecAdmin == Init /\ [][NextAdmin]_vars

\* the Admin of one side, the client, over its whole range of serials
NextAdminClient ==
  \/ Admin(FALSE)
  \/ \E handler \in Handlers : Command(FALSE, StopRequest, handler)

SpecAdminClient == Init /\ [][NextAdminClient]_vars

\* the Admin of the client, ExecuteAndRemoveCommandHandler called with any
\* serial
NextAdminCall ==
  \/ GetAvailableSerial_return(FALSE)
  \/ InsertHandler(FALSE)
  \/ AsyncSendCommand(FALSE)
  \/ \E received, serial \in Serials :
       ExecuteAndRemoveCommandHandler(FALSE, received, serial)
  \/ post_command_handler(FALSE)
  \/ erase_command_handler(FALSE)
  \/ /\ Cardinality(Registered(FALSE)) < MaxHandlers
     /\ \E handler \in Handlers : Command(FALSE, StopRequest, handler)

SpecAdminCall == Init /\ [][NextAdminCall]_vars

\* the Admin of the client sending every request
NextAdminSend ==
  \/ Admin(FALSE)
  \/ /\ Cardinality(Registered(FALSE)) < MaxHandlers
     /\ \E request \in Requests, handler \in Handlers :
          Command(FALSE, request, handler)

SpecAdminSend == Init /\ [][NextAdminSend]_vars

\* the steps a thread inside a handler of the adapter goes on with
Continue(t) ==
  \/ hdno_status(t)
  \/ hdno_resume(t)
  \/ hdno_serve(t)
  \/ hdno_fail(t)
  \/ async_pull_packets(t)
  \/ pull_again(t)
  \/ pull_error_status(t)
  \/ cancel_clear(t)

\* the TLS stream completes a record read: its handler starts on a thread
Transport ==
  \E t \in Threads :
    \/ pull_aborted(t)
    \/ \E len \in PullLens : pull_commit(t, len)
    \/ \E ec \in Errors : pull_error(t, ec)

\* what happens without a call of the user: the io_service runs a handler
\* posted to it, a thread inside a handler goes on, the TLS stream completes
\* a record read
System ==
  \/ \E i \in OpIds : do_complete(i)
  \/ \E t \in Threads :
       \/ run_handle_data_n_ops(t)
       \/ run_async_pull_packets(t)
       \/ strand_read(t)
       \/ Continue(t)
  \/ Transport

\* the buffered socket after its handshake, read and cancelled
NextLive ==
  \/ handshake(Success)
  \/ \E n \in ReadSizes : async_read_some(n)
  \/ \E t \in Threads : cancel(t)
  \/ System

\* the threads of the io_service do not stop while there is work for them,
\* and the TLS stream does not leave a record read without completion
SpecLive == Init /\ [][NextLive]_vars /\ WF_vars(System)

\* the buffered socket, whose puller only the handshake starts, read
\* before and after its handshake
NextHandshake ==
  \/ \E ec \in {Success, handshake_failed} : handshake(ec)
  \/ \E n \in ReadSizes : async_read_some(n)
  \/ System

SpecHandshake == Init /\ [][NextHandshake]_vars

\* the threads of the io_service and of the users inside the adapter
NextLocks ==
  \E t \in Threads :
    \/ \E locks \in Calls : Call(t, locks)
    \/ Acquire(t)
    \/ Release(t)

SpecLocks == Init /\ [][NextLocks]_vars

(* ------------------------------ properties ----------------------------- *)

\* threads inside the completion handler of a record read, before it has
\* read again
InHandler == Cardinality({t \in Threads : thr[t].pc \in {"p_chk", "a1", "p_err"}})

\* record reads outstanding on the TLS stream or on their way to it
Scheduled == pulls + strand_q.rd + io_service_.app + InHandler

\* a step in which thread t runs the second block of cancel
CancelStep(t) == thr[t].pc = "c1" /\ thr'[t].pc # "c1"

\* a step in which the completion handler of a failed record read starts
ErrorStep(t) == thr[t].pc = "idle" /\ thr'[t].pc = "p_err"

\* a step that hands data to the pending read i
Served(i) == ops[i].st = "queued" /\ ops'[i].st = "done" /\ ops'[i].ec = Success

\* C1: the buffer never holds more than the high-water mark plus one record
C1_BufferBound ==
  data_queue_ <= higher_queue_size_bound + receive_buffer_size

\* C2: at most one record read is outstanding on the TLS stream, and while
\* the adapter is pulling exactly one is outstanding or scheduled
C2_OnePull ==
  /\ pulls <= 1
  /\ pulling_ /\ status_ = Success => Scheduled = 1

\* C3: the second block of cancel() leaves the buffer and the queue of pending
\* reads empty, completes every read of that queue with (operation_aborted,
\* 0) and leaves every other read as it was
C3_CancelAborts ==
  [][\A t \in Threads :
       CancelStep(t) =>
         /\ data_queue_' = 0
         /\ op_queue_' = <<>>
         /\ \A i \in OpIds :
              IF \E k \in 1..Len(op_queue_) : op_queue_[k] = i
              THEN ops'[i] = Completed(operation_aborted, 0)
              ELSE ops'[i] = ops[i]]_vars

\* C3 witness: a read served before the cancel keeps its data, a read pending
\* at the cancel is aborted
C3_Witness ==
  \E i, j \in OpIds :
    /\ ops[i] = Completed(operation_aborted, 0)
    /\ ops[j].st = "done" /\ ops[j].ec = Success /\ ops[j].n > 0

\* C4: between cancel() and the owner's next start_pulling() no record read
\* is issued on the TLS stream
C4_NoPullAfterCancel ==
  [][stopped /\ stopped' => pulls' <= pulls]_vars

\* C5: once a record read has failed the saved error stays, no record read
\* is issued any more, and a pending read leaves the queue only to complete
\* with (the saved error, 0), or with operation_aborted by cancel()
C5_ErrorIsFinal ==
  [][status_ # Success =>
       /\ status_' = status_
       /\ pulls' <= pulls
       /\ \A i \in OpIds :
            ops[i].st \in {"queued", "posted"} /\ ops'[i].st = "done" =>
              /\ ops'[i].n = 0
              /\ ops'[i].ec \in {status_, operation_aborted}]_vars

C7_StartIdempotent ==
  [][/\ io_service_'.app > io_service_.app =>
          ~pulling_ /\ pulling_' /\ io_service_'.app = io_service_.app + 1
     /\ stopped /\ ~stopped' /\ pulling_ =>
          UNCHANGED <<status_, pulling_, data_queue_, op_queue_, strand_q,
                      io_service_, pulls, ops, thr>>]_vars

\* C7 witness: start_pulling() has scheduled its one pull
C7_Witness == pulling_ /\ io_service_.app = 1 /\ pulls = 0

\* C8: async_write_some is accepted whatever the state of the adapter, a
\* queued write runs as soon as the strand is free, and the steps of a write
\* leave the buffer, the pending reads, the pulling and the status alone
C8_WritesUnbuffered ==
  /\ [](nwrites < MaxWrites => ENABLED async_write_some)
  /\ []((strand_q.wr > 0 /\ strand_ = 0 /\ \E t \in Threads : thr[t].pc = "idle")
          => ENABLED (\E t \in Threads : strand_write(t)))
  /\ [][/\ nwrites' > nwrites /\ wsync' = wsync =>
             writes' + strand_q'.wr = writes + strand_q.wr + 1
        /\ (nwrites' # nwrites \/ writes' # writes
              \/ strand_q'.wr # strand_q.wr) =>
             UNCHANGED <<status_, pulling_, data_queue_, op_queue_,
                         io_service_, pulls, ops>>]_vars

\* C8 witness: a write is on the TLS stream while the adapter is paused on a
\* full buffer and a read is pending
C8_Witness ==
  /\ writes = 1
  /\ ~pulling_ /\ data_queue_ >= higher_queue_size_bound
  /\ op_queue_ # <<>>

\* C9: no operation is started on the TLS stream while a thread is inside a
\* synchronous operation on it
C9_OneTlsOperation ==
  [][pulls' > pulls \/ writes' > writes => wsync = 0]_vars

\* C10: the serials registered on the client and those registered on the
\* server are disjoint, one side's even and the other side's odd
C10_DisjointSerials ==
  /\ Registered(FALSE) \cap Registered(TRUE) = {}
  /\ \E r \in {0, 1} :
       /\ \A s1 \in Registered(FALSE) : s1 % 2 = r
       /\ \A s2 \in Registered(TRUE) : s2 % 2 = 1 - r

\* C11: the serial GetAvailableSerial hands to Command has no entry in
\* command_handlers_ at that moment, whatever the number of serials in use
C11_NoReuse ==
  [][\A a \in Admins :
       cmd[a].pc = "g1" /\ cmd'[a].pc = "i0" =>
         cmd'[a].serial \notin Registered(a)]_vars

\* C12: a handler registered by Command leaves the table only by the erase
\* that follows its own posting, so that it is posted once and only once:
\* InsertHandler never replaces it, and the entry erased after a frame is the
\* one whose handler was posted for that frame
C12_ExactlyOnce ==
  [][\A a \in Admins :
       /\ cmd[a].pc = "i0" /\ cmd'[a].pc = "s0" =>
            command_handlers_[a][cmd[a].serial] \notin Handlers
       /\ \A s \in Serials :
            /\ command_handlers_[a][s] \in Handlers
            /\ command_handlers_'[a][s] = NoHandler
            => /\ rcv[a].pc = "r2"
               /\ command_serial_received_[a] = s
               /\ rcv[a].handler = command_handlers_[a][s]]_vars

\* C17: the table is read by ExecuteAndRemoveCommandHandler only while no
\* other thread is inside a region protected by command_handlers_mutex_
C17_MapUnderMutex ==
  [][\A a \in Admins :
       rcv[a].pc \in {"idle", "r1"} /\ rcv'[a].pc # rcv[a].pc =>
         ~command_handlers_mutex_[a]]_vars

\* C13: when close() returns, every read registered before is completed or
\* has its completion posted, those that were pending with (operation_aborted,
\* 0); afterwards a completed read keeps its result and a posted completion
\* delivers no data
C13_CloseAborts ==
  [][/\ ~closed /\ closed' =>
          \A i \in OpIds :
            /\ ops'[i].st \in {"none", "done", "posted"}
            /\ ops[i].st = "queued" => ops'[i] = Completed(operation_aborted, 0)
     /\ closed =>
          \A i \in OpIds :
            /\ ops[i].st = "done" => ops'[i] = ops[i]
            /\ ops[i].st = "posted" =>
                 \/ ops'[i] = ops[i]
                 \/ ops'[i].st = "done" /\ ops'[i].n = 0]_vars

\* C13 witness: close() has returned and aborted a pending read
C13_Witness ==
  /\ closed
  /\ \E i \in OpIds : ops[i] = Completed(operation_aborted, 0)

\* C15: after a handshake that failed the TLS stream is not open
C15_FailedHandshakeCloses ==
  handshake_ec = handshake_failed => ~open

\* C16: a read that fails completes with the error code the record read
\* reported, and read_some leaves in ec the code its read completed with
C16_ErrorUnchanged ==
  [][/\ \A i \in OpIds :
          ops[i].st = "posted" /\ ops'[i].st = "done" =>
            ops'[i].ec = status_ /\ status_ \in Errors
     /\ future # 0 /\ future' = 0 => read_some_ec' = ops[future].ec]_vars

\* a step in which the body of async_pull_packets runs
PullStep ==
  \/ io_service_'.app < io_service_.app
  \/ \E t \in Threads : thr[t].pc = "a1" /\ thr'[t].pc # "a1"

\* C19: a record read is issued on the TLS stream only while the buffer is
\* below the high-water mark; a pull step that finds the buffer at or above
\* the mark issues no read and clears pulling_, one that finds it below
\* reads; and after a successful record read the adapter, not errored, runs
\* a pull step again
C19_HighWater ==
  [][/\ pulls' > pulls => data_queue_ < higher_queue_size_bound
     /\ PullStep /\ data_queue_ >= higher_queue_size_bound =>
          ~pulling_' /\ pulls' = pulls /\ strand_q' = strand_q
     /\ PullStep /\ data_queue_ < higher_queue_size_bound =>
          /\ pulls' + strand_q'.rd = pulls + strand_q.rd + 1
          /\ pulling_' = pulling_
     /\ \A t \in Threads :
          thr[t].pc = "p_chk" /\ thr'[t].pc # "p_chk" /\ status_ = Success =>
            thr'[t].pc = "a1"]_vars

\* the adapter went from pulling to paused: not pulling, not cancelled, no
\* error
Paused == ~pulling_ /\ ~stopped /\ status_ = Success

\* a step in which the owner's start_pulling() starts the pulling
OwnerStart == thr' = thr /\ ~pulling_ /\ pulling_'

\* C20: while the adapter is paused with a buffer at or above the low-water
\* mark no pull is scheduled and no record read is issued, the owner's
\* start_pulling() apart; a thread that has served a read enters
\* handle_data_n_ops again and there, finding the adapter not pulling and
\* the buffer below the low-water mark, schedules a pull
C20_ResumeBelowLowWater ==
  [][/\ Paused /\ data_queue_ >= lower_queue_size_bound /\ ~OwnerStart =>
          /\ io_service_'.app <= io_service_.app
          /\ pulls' <= pulls
          /\ strand_q'.rd <= strand_q.rd
          /\ ~pulling_'
     /\ \A i \in OpIds :
          Served(i) => \E t \in Threads : thr[t].pc = "h2" /\ thr'[t].pc = "h0"
     /\ \A t \in Threads :
          /\ thr[t].pc = "h0" /\ thr'[t].pc # "h0" /\ status_ = Success =>
               thr'[t].pc = "h1"
          /\ thr[t].pc = "h1" /\ thr'[t].pc # "h1"
               /\ data_queue_ < lower_queue_size_bound /\ ~pulling_ =>
               pulling_' /\ io_service_'.app = io_service_.app + 1]_vars

\* the endpoint of the stack proxy over tcp has been built
Built == calls # <<>> /\ calls[1] = "proxy"

\* the function of the layer has read the parameter set at position pos
Read(layer, pos) == \E k \in 1..Len(reads) : reads[k] = <<layer, pos>>

\* C14: each layer of the stack runs its make_endpoint and reads the one
\* parameter set at its position, so that n layers read n sets
C14_OneSetPerLayer ==
  Built =>
    /\ calls = <<"proxy", "tcp">>
    /\ reads = <<<<"proxy", 1>>, <<"tcp", 2>>>>

\* C14 as the code has it: each layer that runs reads the set at its
\* position and tcp no other; the proxy layer stops there when ec is set,
\* else it goes to the following set, which it reads itself unless its
\* context is an acceptor endpoint, and hands to tcp::make_endpoint unless
\* it took the remote host from it; no layer reads any other set
C14_SetsRead ==
  Built =>
    LET ok == MakeProxyContext(parameters[1], ec_in) = Success
        taken == ~parameters[1].acceptor /\ UpdateRemoteHost(parameters[2])
    IN  /\ reads[1] = <<"proxy", 1>>
        /\ Read("proxy", 2) <=> ok /\ ~parameters[1].acceptor
        /\ calls = <<"proxy", "tcp">> <=> ok /\ ~taken
        /\ calls = <<"proxy">> <=> ~ok \/ taken
        /\ Read("tcp", 2) <=> calls = <<"proxy", "tcp">>
        /\ \A k \in 1..Len(reads) :
             reads[k] \in {<<"proxy", 1>>, <<"proxy", 2>>, <<"tcp", 2>>}
        /\ Len(reads) <= 3

\* C14 witness: the proxy layer took the remote host from the set of the
\* next layer and built no next endpoint
C14_Witness ==
  /\ Built
  /\ reads = <<<<"proxy", 1>>, <<"proxy", 2>>>>
  /\ endpoint.layer = "proxy" /\ endpoint.next = "none"

\* C18: make_endpoint_context leaves invalid_argument in ec when it built
\* no context and leaves ec as it was when it built one; the proxy layer's
\* make_endpoint, when its context creation set ec, returns an empty
\* endpoint, reads no further set and calls no next layer
C18_InvalidArgument ==
  /\ calls = <<"tls">> =>
       /\ endpoint = NoEndpoint <=> ~make_tls_context(parameters[1])
       /\ endpoint = NoEndpoint => ec_out = invalid_argument
       /\ endpoint # NoEndpoint => ec_out = ec_in
  /\ Built /\ MakeProxyContext(parameters[1], ec_in) # ec_in =>
       /\ endpoint = NoEndpoint
       /\ ec_out = invalid_argument
       /\ calls = <<"proxy">>
       /\ reads = <<<<"proxy", 1>>>>

\* C18 witness: no TLS context could be built from the parameter set
C18_Witness ==
  /\ calls = <<"tls">>
  /\ endpoint = NoEndpoint
  /\ ec_in = Success /\ ec_out = invalid_argument

\* C21: after a successful handshake every pending read is completed in the
\* end, and the state of a pending read with no error, an empty buffer and
\* an adapter that does not pull leads to the pulling restarted, the read
\* out of the queue or an error
C21_ReadsComplete ==
  /\ \A i \in OpIds :
       (handshake_ec = Success /\ ops[i].st = "queued") ~> (ops[i].st = "done")
  /\ (/\ handshake_ec = Success /\ status_ = Success
      /\ op_queue_ # <<>> /\ ~pulling_ /\ data_queue_ = 0)
       ~> (pulling_ \/ op_queue_ = <<>> \/ status_ # Success)

\* C21 witness: after the handshake one read got data and another the error
\* of the record read that failed
C21_Witness ==
  /\ handshake_ec = Success
  /\ \E i, j \in OpIds :
       /\ ops[i].st = "done" /\ ops[i].ec = Success /\ ops[i].n > 0
       /\ ops[j].st = "done" /\ ops[j].ec \in Errors

\* C22: the pulling starts, a pull is scheduled and a record read is issued
\* on the TLS stream only once a handshake has succeeded, and a handshake
\* that fails leaves the adapter as it was
C22_PullsAfterHandshake ==
  [][/\ (~pulling_ /\ pulling_') \/ io_service_'.app > io_service_.app
          \/ pulls' + strand_q'.rd > pulls + strand_q.rd =>
          handshake_ec' = Success
     /\ handshake_ec = "none" /\ handshake_ec' = handshake_failed =>
          UNCHANGED avars]_vars

\* C23: ExecuteAndRemoveCommandHandler(serial) goes on to execute a handler
\* if and only if one is registered under serial; the handler it posts is
\* the one registered under serial and the entry it erases is that of
\* serial, no other entry changing
C23_ExecutesItsArgument ==
  [][\A a \in Admins :
       /\ rcv[a].pc = "idle" /\ <<rcv, command_serial_received_>>' #
                                 <<rcv, command_serial_received_>> =>
            /\ rcv'[a].pc = "r1" <=> rcv'[a].serial \in Registered(a)
            /\ command_handlers_' = command_handlers_
       /\ rcv[a].pc = "r1" /\ rcv'[a].pc = "r2" =>
            rcv'[a].handler = command_handlers_[a][rcv[a].serial]
       /\ rcv[a].pc = "r2" /\ rcv'[a].pc = "idle" =>
            command_handlers_'[a] =
              [command_handlers_[a] EXCEPT ![rcv[a].serial] = NoHandler]]_vars

\* C24: Command writes its frame to the fiber only after its InsertHandler,
\* which registers the caller's handler under the serial allocated and
\* writes nothing; the frame carries that serial, the command id of the
\* request and its serialized parameters with their size
C24_RegisteredBeforeSent ==
  [][\A a \in Admins :
       /\ fiber_'[a] # fiber_[a] =>
            /\ cmd[a].pc = "s0"
            /\ fiber_'[a].serial = cmd[a].serial
            /\ fiber_'[a].command_id = cmd[a].request.command_id
            /\ fiber_'[a].payload = cmd[a].request.payload
            /\ fiber_'[a].payload_len = Len(cmd[a].request.payload)
       /\ cmd[a].pc = "i0" /\ cmd'[a].pc # "i0" =>
            /\ cmd'[a].pc = "s0"
            /\ command_handlers_'[a][cmd[a].serial] = cmd[a].handler
            /\ fiber_' = fiber_]_vars

\* C24 witness: the frame of a request with parameters is on the fiber and
\* a handler is registered under its serial
C24_Witness ==
  /\ fiber_[FALSE].payload_len = 2 /\ fiber_[FALSE].serial = 4
  /\ command_handlers_[FALSE][4] \in Handlers

\* the read i is in the queue of pending reads
Pending(i) == \E k \in 1..Len(op_queue_) : op_queue_[k] = i

FirstLock(t, m) ==
  CHOOSE k \in 1..Len(held[t]) :
    held[t][k] = m /\ \A j \in 1..(k - 1) : held[t][j] # m

\* C26: a thread that holds data_queue_mutex_ and op_queue_mutex_ locked
\* them in that order, no thread locks either of them while it holds
\* pulling_mutex_, and while a thread is inside a call some thread can make
\* its next lock operation
C26_NoDeadlock ==
  /\ [](\A t \in Threads :
          Holds(t, "data_queue_mutex_") /\ Holds(t, "op_queue_mutex_") =>
            FirstLock(t, "data_queue_mutex_") < FirstLock(t, "op_queue_mutex_"))
  /\ []((\E t \in Threads : todo[t] # <<>>) => \E t \in Threads : CanStep(t))
  /\ [][\A t \in Threads :
          /\ Len(held'[t]) > Len(held[t])
          /\ held'[t][Len(held'[t])] \in {"data_queue_mutex_", "op_queue_mutex_"}
          => ~Holds(t, "pulling_mutex_")]_vars

\* C26 witness: a thread inside a nested handle_data_n_ops holds both queue
\* mutexes and pulling_mutex_ while the other thread waits for a queue mutex
C26_Witness ==
  \E t, u \in Threads :
    /\ Holds(t, "data_queue_mutex_") /\ Holds(t, "op_queue_mutex_")
    /\ Holds(t, "pulling_mutex_")
    /\ todo[u] # <<>> /\ ~CanStep(u)

\* C27: async_read_some with an empty buffer is accepted in every state of
\* the adapter, also while a thread holds op_queue_mutex_; it completes with
\* (success, 0) and leaves the queue of pending reads, the buffer, the
\* pulling, the status and the handlers posted for the adapter as they were
C27_EmptyBuffer ==
  /\ [](NextOp <= MaxReads => ENABLED async_read_some(0))
  /\ [][\A i \in OpIds :
          ops[i].st = "none" /\ ops'[i] # ops[i] /\ ops'[i].size = 0 =>
            /\ ops'[i] = Completed(Success, 0)
            /\ UNCHANGED <<status_, pulling_, data_queue_, op_queue_,
                           io_service_, pulls, strand_q, stopped>>]_vars

\* C27 witness: a read with an empty buffer has completed while a thread
\* serving reads holds op_queue_mutex_
C27_Witness ==
  /\ op_queue_mutex_ # 0
  /\ \E i \in OpIds : ops[i] = Completed(Success, 0)

(* ------------------------- the socket objects -------------------------- *)

\* basic_buffered_tls_socket(io_service, p_ctx) and
\* basic_tls_socket(io_service, p_ctx): a new stream, a reference to it, a
\* new strand and, for the buffered socket, a puller; each is named after
\* the object that creates it
Constructor(o, kind) ==
  /\ ~aborted
  /\ tls_sockets[o] = NoSocket
  /\ tls_sockets' =
       [tls_sockets EXCEPT ![o] =
          [kind |-> kind, p_ctx_ |-> 1, p_socket_ |-> o, socket_ |-> o,
           p_strand_ |-> o,
           p_puller_ |-> IF kind = "buffered" THEN o ELSE 0,
           null_deref |-> FALSE]]
  /\ UNCHANGED <<avars, wvars, mvars, svars, evars, lvars, aborted>>

\* the members of the new object after the initializer list of the move
\* constructor alone: socket_(*p_socket_) reads the member initialised just
\* before it, which is empty when other was empty
MoveInitializersOnly(other) ==
  [kind |-> other.kind, p_ctx_ |-> other.p_ctx_,
   p_socket_ |-> other.p_socket_, socket_ |-> other.p_socket_,
   p_strand_ |-> other.p_strand_, p_puller_ |-> other.p_puller_,
   null_deref |-> other.p_socket_ = 0]

\* the same after the body, which evaluates *(other.p_socket_) on the
\* pointer the initializer list has just emptied
MoveInitializers(other) ==
  [MoveInitializersOnly(other) EXCEPT !.null_deref = TRUE]

\* basic_buffered_tls_socket(basic_buffered_tls_socket&& other) and
\* basic_tls_socket(basic_tls_socket&& other): the initializer list empties
\* the shared pointers of other, then the body assigns *(other.p_socket_)
\* to other.socket_, which is undefined on an empty pointer: other.socket_
\* is bound to a null reference, or it keeps its binding, or the process
\* crashes. The move of ExtendedTLSContext leaves other.p_ctx_ set or empty.
MoveConstructor(n, o) ==
  /\ ~aborted
  /\ n # o
  /\ tls_sockets[n] = NoSocket
  /\ tls_sockets[o] # NoSocket
  /\ LET other == tls_sockets[o]
     IN  \/ /\ aborted' = TRUE
            /\ UNCHANGED tls_sockets
         \/ /\ \E ctx \in {0, other.p_ctx_}, ref \in {0, other.socket_} :
                 tls_sockets' =
                   [tls_sockets EXCEPT
                      ![n] = MoveInitializers(other),
                      ![o] = [other EXCEPT !.p_ctx_ = ctx, !.p_socket_ = 0,
                                           !.socket_ = ref, !.p_strand_ = 0,
                                           !.p_puller_ = 0]]
            /\ UNCHANGED aborted
  /\ UNCHANGED <<avars, wvars, mvars, svars, evars, lvars>>

NextMove ==
  \/ \E o \in ObjIds, kind \in Kinds : Constructor(o, kind)
  \/ \E n, o \in ObjIds : MoveConstructor(n, o)

SpecMove == Init /\ [][NextMove]_vars

\* C29: a move constructor gives the new object the context, the stream,
\* the strand and the puller of the other one, binds its socket_ to the
\* stream the other one referred to, and dereferences no empty stream
\* pointer
C29_MoveTransfers ==
  [][\A n, o \in ObjIds :
       MoveConstructor(n, o) /\ tls_sockets[o].p_socket_ # 0 =>
         /\ ~aborted'
         /\ tls_sockets'[n].p_ctx_ = tls_sockets[o].p_ctx_
         /\ tls_sockets'[n].p_socket_ = tls_sockets[o].p_socket_
         /\ tls_sockets'[n].socket_ = tls_sockets[o].socket_
         /\ tls_sockets'[n].p_strand_ = tls_sockets[o].p_strand_
         /\ tls_sockets'[n].p_puller_ = tls_sockets[o].p_puller_
         /\ ~tls_sockets'[n].null_deref]_vars

\* the serials the Admin with is_server_ = a may allocate: from 3 on for a
\* client, from 4 on for a server
Candidates(a) ==
  {s \in Serials : s >= 3 + (IF a THEN 1 ELSE 0)
                     /\ s <= uint32_max - 1 + (IF a THEN 1 ELSE 0)}

\* C28: under the mutex GetAvailableSerial returns the smallest candidate
\* that has no entry and gives it one, or returns 0 and changes nothing
\* when every candidate has an entry; and the serial a caller has obtained
\* and not yet registered its handler under is never the one another caller
\* of GetAvailableSerial would obtain
C28_SmallestFreeSerial ==
  /\ [][\A a \in Admins :
          cmd[a].pc = "g1" /\ cmd'[a].pc = "i0" =>
            LET serial == cmd'[a].serial
            IN  /\ command_handlers_mutex_[a]
                /\ serial = 0 <=> Candidates(a) \subseteq Registered(a)
                /\ serial = 0 => command_handlers_' = command_handlers_
                /\ serial # 0 =>
                     /\ serial \in Candidates(a) \ Registered(a)
                     /\ \A s \in Candidates(a) :
                          s < serial => s \in Registered(a)
                     /\ command_handlers_'[a] =
                          [command_handlers_[a] EXCEPT ![serial] = Placeholder]]_vars
  /\ [](\A a \in Admins :
          cmd[a].pc = "i0" /\ cmd[a].serial # 0 =>
            GetAvailableSerial(a) # cmd[a].serial)

=============================================================================
